---- MODULE Spec2Model ----
(***************************************************************************)
(* Smart-CCTV recording orchestrator (src/smart_cctv.py).                  *)
(*                                                                         *)
(* main() opens the camera and alternates continuous_recording_mode and    *)
(* motion_recording_mode forever (DEMO_MODE, specifications Spec and       *)
(* SpecLive), or picks the mode by the parity of the wall-clock hour       *)
(* (DEMO_MODE off, specification SpecClock).  The program is single        *)
(* threaded; pc is the position of that one thread.  Time is counted in    *)
(* ticks of one frame interval (1/FPS seconds): time.sleep(1.0 / FPS)      *)
(* takes one tick plus a scheduling/processing delay, and                  *)
(* a second is FPS ticks.  A frame is identified by its capture number.    *)
(*                                                                         *)
(* The configuration values of lines 22-35 are instantiated with small     *)
(* numbers (FPS 2 for 15, chunks of 2 s for 30 s, modes of 6 s for 30 s)   *)
(* so that whole mode activations fit the explored time horizon.           *)
(***************************************************************************)
EXTENDS Integers, Sequences, FiniteSets

\* ---- configuration (src/smart_cctv.py lines 21-38) ----
CONTINUOUS_CHUNK_DURATION == 2
FPS == 2
PRE_MOTION_BUFFER_SIZE == FPS * 3
MOTION_THRESHOLD == 500
MIN_MOTION_FRAMES == 3
POST_MOTION_DELAY == 2
MODE_DURATION == 6

\* ---- bounds of the exploration ----
MaxTime == 26
MaxJitter == 1
MaxUploadTicks == 1
MaxClips == 4
ClockLead == 8

\* One second of time.time(), in ticks.
Second == FPS
\* One minute of the wall clock, in ticks.
Minute == 60 * Second
\* One hour of the wall clock, in ticks.
Hour == 60 * Minute

None == 0

VARIABLES
  DEMO_MODE,          \* the module's setting of line 31; never assigned
  boot_time,          \* the wall clock when the program started; `now' counts
                      \* from there
  pc,                 \* position of the single thread
  now,                \* time.time(), in ticks
  cap,                \* the capture device: "closed", "open", "released"
  captured,           \* frames cap.read() delivered to the active mode function
  mode_start_time,    \* local of the active mode function
  filename,           \* local of the active mode function
  writer,             \* local of the active mode function: None or a clip index
  frames_written,     \* continuous mode: frames of the current chunk
  read_failed,        \* continuous mode: the chunk's loop was left by a failed read
  frame_buffer,       \* motion mode: deque(maxlen=PRE_MOTION_BUFFER_SIZE)
  prev_frame,         \* motion mode: None or the previous frame
  frame,              \* motion mode: the frame of the current iteration
  motion_detected,    \* motion mode: detect_motion of the current iteration
  recording,          \* motion mode
  motion_frame_count, \* motion mode
  no_motion_time,     \* motion mode
  trigger,            \* motion mode: [time, frame, snapshot] of the last trigger
  last_check,         \* motion mode: time of the previous hold-timer check
  run,                \* motion mode: motion frames in a row up to the current one
  longest_run,        \* motion mode: longest such run of this activation
  clips,              \* the VideoWriters the active mode function created, in order
  files,              \* local storage: set of <<file name, clip index>>, index
                      \* None for a clip of an earlier activation
  upload_ret,         \* value returned by an upload_to_cloudinary call that has
                      \* just returned (the callers discard it)
  outcome             \* what the upload client and os.remove did in that call

vars == <<DEMO_MODE, boot_time, pc, now, cap, captured, mode_start_time, filename, writer,
          frames_written, read_failed, frame_buffer, prev_frame, frame,
          motion_detected, recording, motion_frame_count, no_motion_time,
          trigger, last_check, run, longest_run, clips, files, upload_ret,
          outcome>>

config == <<DEMO_MODE, boot_time>>
continuous_locals == <<frames_written, read_failed>>
motion_locals == <<frame_buffer, prev_frame, frame, motion_detected,
                   recording, motion_frame_count, no_motion_time, trigger,
                   last_check, run, longest_run>>

\* ---- helpers ----

\* get_filename: strftime at minute granularity for continuous clips, at
\* second granularity for motion clips.
get_filename(mode) ==
  IF mode = "continuous"
    THEN <<"CONTINUOUS", (boot_time + now) \div Minute>>
    ELSE <<"MOTION", (boot_time + now) \div Second>>

\* datetime.datetime.now().hour at time t
current_hour(t) == ((boot_time + t) \div Hour) % 24

\* should_continue_mode with the boundary instant still counted as inside.
should_continue_mode_Inclusive(t, start, current_mode) ==
  t - start <= MODE_DURATION * Second

\* should_continue_mode with the operands of the subtraction swapped.
should_continue_mode_Swapped(t, start, current_mode) ==
  start - t < MODE_DURATION * Second

\* should_continue_mode testing the hour the mode started in.
should_continue_mode_HourAtStart(t, start, current_mode) ==
  IF DEMO_MODE
    THEN t - start < MODE_DURATION * Second
    ELSE IF current_mode = "continuous"
           THEN current_hour(start) % 2 = 1
           ELSE current_hour(start) % 2 = 0

\* should_continue_mode, evaluated at time t = time.time().  MODE_DURATION is
\* in seconds.
should_continue_mode(t, start, current_mode) ==
  IF DEMO_MODE
    THEN t - start < MODE_DURATION * Second
    ELSE IF current_mode = "continuous"
           THEN current_hour(t) % 2 = 1
           ELSE current_hour(t) % 2 = 0

\* detect_motion without the test for a missing previous frame.
detect_motion_NoBaselineTest(prev, motion_pixels, threshold) ==
  motion_pixels > threshold

\* detect_motion: no previous frame, no motion; else the count of changed
\* pixels (computed by cv2 from the two frames) against the threshold.
detect_motion(prev, motion_pixels, threshold) ==
  IF prev = None THEN FALSE ELSE motion_pixels > threshold

\* The pixel counts cv2.countNonZero may return for a pair of frames.
MotionPixels == {0, MOTION_THRESHOLD, MOTION_THRESHOLD + 1}

\* A deque that never evicts.
DequeAppend_NoEvict(buf, f, n) == Append(buf, f)

\* deque(maxlen=n).append
DequeAppend(buf, f, n) ==
  IF Len(buf) < n THEN Append(buf, f) ELSE Append(Tail(buf), f)

\* cv2.VideoWriter(filepath, ...): a new, open writer object.
NewClip(mode, name) ==
  [mode |-> mode, name |-> name, frames |-> <<>>, opened |-> TRUE,
   released |-> 0, submitted |-> 0]

\* get_video_writer: the file is created, replacing any file of that name.
FilesAfterOpen(name, clip) ==
  {f \in files : f[1] # name} \cup {<<name, clip>>}

\* writer.write(f)
ClipsAfterWrite(cs, w, f) ==
  [cs EXCEPT ![w].frames = Append(@, f)]

\* writer.release()
ClipsAfterRelease(cs, w) ==
  [cs EXCEPT ![w].opened = FALSE, ![w].released = @ + 1]

\* The clips of this activation whose content is the local file `name`.
ClipsOfFile(name) == {f[2] : f \in {g \in files : g[1] = name}} \ {None}

\* An upload that deletes the local file whether or not the upload succeeded.
upload_to_cloudinary_AlwaysRemoves(name, ok, removed, d) ==
  /\ (d = 0) \/ (now < MaxTime)
  /\ now' = now + d
  /\ clips' = [i \in DOMAIN clips |->
                 IF i \in ClipsOfFile(name)
                   THEN [clips[i] EXCEPT !.submitted = @ + 1]
                   ELSE clips[i]]
  /\ files' = IF removed THEN {f \in files : f[1] # name} ELSE files
  /\ upload_ret' = IF ok THEN "url" ELSE "None"
  /\ outcome' = IF ~ok THEN "upload_failed"
                ELSE IF removed THEN "removed" ELSE "remove_failed"

\* upload_to_cloudinary with os.remove outside the inner try: its exception
\* reaches the outer handler, which returns None.
upload_to_cloudinary_RemoveUnguarded(name, ok, removed, d) ==
  /\ (d = 0) \/ (now < MaxTime)
  /\ now' = now + d
  /\ clips' = [i \in DOMAIN clips |->
                 IF i \in ClipsOfFile(name)
                   THEN [clips[i] EXCEPT !.submitted = @ + 1]
                   ELSE clips[i]]
  /\ files' = IF ok /\ removed THEN {f \in files : f[1] # name} ELSE files
  /\ upload_ret' = IF ok /\ removed THEN "url" ELSE "None"
  /\ outcome' = IF ~ok THEN "upload_failed"
                ELSE IF removed THEN "removed" ELSE "remove_failed"

\* upload_to_cloudinary trying a failed upload a second time.
upload_to_cloudinary_Retry(name, ok, removed, d) ==
  /\ (d = 0) \/ (now < MaxTime)
  /\ now' = now + d
  /\ clips' = [i \in DOMAIN clips |->
                 IF i \in ClipsOfFile(name)
                   THEN [clips[i] EXCEPT !.submitted = IF ok THEN @ + 1 ELSE @ + 2]
                   ELSE clips[i]]
  /\ files' = IF ok /\ removed THEN {f \in files : f[1] # name} ELSE files
  /\ upload_ret' = IF ok THEN "url" ELSE "None"
  /\ outcome' = IF ~ok THEN "upload_failed"
                ELSE IF removed THEN "removed" ELSE "remove_failed"

\* upload_to_cloudinary(filepath, filename): the upload succeeds or raises;
\* after a success os.remove succeeds or raises; both exceptions are caught.
\* The call takes d ticks.
upload_to_cloudinary(name, ok, removed, d) ==
  /\ (d = 0) \/ (now < MaxTime)
  /\ now' = now + d
  /\ clips' = [i \in DOMAIN clips |->
                 IF i \in ClipsOfFile(name)
                   THEN [clips[i] EXCEPT !.submitted = @ + 1]
                   ELSE clips[i]]
  /\ files' = IF ok /\ removed THEN {f \in files : f[1] # name} ELSE files
  /\ upload_ret' = IF ok THEN "url" ELSE "None"
  /\ outcome' = IF ~ok THEN "upload_failed"
                ELSE IF removed THEN "removed" ELSE "remove_failed"

\* time.sleep(1.0 / FPS): one frame interval plus a delay j.
Sleep(j) ==
  /\ now < MaxTime
  /\ now' = now + 1 + j

NoName == <<"", 0>>
NoTrigger == [time |-> 0, frame |-> None, snapshot |-> <<>>]

\* The locals of a mode function that is not running.
NoLocals ==
  /\ mode_start_time = 0
  /\ filename = NoName
  /\ writer = None
  /\ frames_written = 0
  /\ read_failed = FALSE
  /\ frame_buffer = <<>>
  /\ prev_frame = None
  /\ frame = None
  /\ motion_detected = FALSE
  /\ recording = FALSE
  /\ motion_frame_count = 0
  /\ no_motion_time = 0
  /\ trigger = NoTrigger
  /\ last_check = 0
  /\ run = 0
  /\ longest_run = 0

\* A mode function returns, or is unwound by an exception: its locals are gone.
Return ==
  /\ mode_start_time' = 0
  /\ filename' = NoName
  /\ writer' = None
  /\ frames_written' = 0
  /\ read_failed' = FALSE
  /\ frame_buffer' = <<>>
  /\ prev_frame' = None
  /\ frame' = None
  /\ motion_detected' = FALSE
  /\ recording' = FALSE
  /\ motion_frame_count' = 0
  /\ no_motion_time' = 0
  /\ trigger' = NoTrigger
  /\ last_check' = 0
  /\ run' = 0
  /\ longest_run' = 0

\* A call of a mode function: the writers and frames of the previous
\* activation are out of reach; its files stay on disk.
Call ==
  /\ clips' = <<>>
  /\ captured' = 0
  /\ files' = {<<f[1], None>> : f \in files}

\* ---- main (lines 256-302) ----

\* Where main goes on after a mode function returned: to the other call of
\* the DEMO_MODE branch, or back to the hour test of line 290.
AfterContinuous == IF DEMO_MODE THEN "main_motion" ELSE "main_loop"
AfterMotion == IF DEMO_MODE THEN "main_continuous" ELSE "main_loop"

\* The process before main runs, whatever the setting.
InitProcess ==
  /\ pc = "start"
  /\ now = 0
  /\ cap = "closed"
  /\ captured = 0
  /\ NoLocals
  /\ clips = <<>>
  /\ files = {}
  /\ upload_ret = "unset"
  /\ outcome = "unset"

\* The program as it is shipped: DEMO_MODE = True.
Init ==
  /\ DEMO_MODE = TRUE
  /\ boot_time = 0
  /\ InitProcess

\* Wall-clock times at which the program may be started: ClockLead ticks
\* before 01:00 (the hour goes from even to odd) and twice as long before
\* 24:00 (from odd to even, over midnight).
ClockStarts == {Hour - ClockLead, 24 * Hour - 2 * ClockLead}

\* The program with DEMO_MODE = False, started shortly before the hour turns.
InitClock ==
  /\ DEMO_MODE = FALSE
  /\ boot_time \in ClockStarts
  /\ InitProcess

\* main without the isOpened() test.
MainStart_NoOpenCheck ==
  /\ UNCHANGED config
  /\ pc = "start"
  /\ \E opened \in BOOLEAN :
       /\ pc' = AfterMotion
       /\ cap' = IF opened THEN "open" ELSE "closed"
  /\ UNCHANGED <<now, captured, mode_start_time, filename, writer,
                 continuous_locals, motion_locals, clips, files, upload_ret,
                 outcome>>

\* lines 268-271: cv2.VideoCapture(0); return if it did not open.
MainStart ==
  /\ UNCHANGED config
  /\ pc = "start"
  /\ \E opened \in BOOLEAN :
       IF opened
         THEN pc' = AfterMotion /\ cap' = "open"
         ELSE pc' = "exited" /\ cap' = "closed"
  /\ UNCHANGED <<now, captured, mode_start_time, filename, writer,
                 continuous_locals, motion_locals, clips, files, upload_ret,
                 outcome>>

\* lines 298-302: KeyboardInterrupt anywhere in the try block; the handler
\* prints, the finally clause releases the camera, main returns.
Interrupt ==
  /\ UNCHANGED config
  /\ pc \notin {"start", "exited"}
  /\ pc' = "exited"
  /\ cap' = "released"
  /\ Return
  /\ upload_ret' = "unset"
  /\ outcome' = "unset"
  /\ UNCHANGED <<now, captured, clips, files>>

\* ---- continuous_recording_mode (lines 121-169) ----

\* line 129 (called from line 286)
ContinuousEnter ==
  /\ UNCHANGED config
  /\ \/ pc = "main_continuous"
     \/ pc = "main_loop" /\ current_hour(now) % 2 = 1
  /\ Call
  /\ mode_start_time' = now
  /\ pc' = "c_while"
  /\ upload_ret' = "unset"
  /\ outcome' = "unset"
  /\ UNCHANGED <<now, cap, filename, writer, continuous_locals, motion_locals>>

\* lines 131-139: the while condition, then a new chunk is opened; line 169
\* when the condition is false.
ContinuousWhile ==
  /\ UNCHANGED config
  /\ pc = "c_while"
  /\ IF should_continue_mode(now, mode_start_time, "continuous")
       THEN /\ Len(clips) < MaxClips
            /\ filename' = get_filename("continuous")
            /\ clips' = Append(clips, NewClip("continuous", filename'))
            /\ writer' = Len(clips) + 1
            /\ files' = FilesAfterOpen(filename', writer')
            /\ frames_written' = 0
            /\ read_failed' = FALSE
            /\ pc' = "c_inner"
            /\ UNCHANGED <<mode_start_time, motion_locals>>
       ELSE /\ pc' = AfterContinuous
            /\ Return
            /\ UNCHANGED <<clips, files>>
  /\ upload_ret' = "unset"
  /\ outcome' = "unset"
  /\ UNCHANGED <<now, cap, captured>>

\* line 138
total_frames == CONTINUOUS_CHUNK_DURATION * FPS

\* The inner loop running one pass too many.
InnerLoopCond_OffByOne == frames_written <= total_frames

\* line 141
InnerLoopCond == frames_written < total_frames

\* lines 141-148: one pass of the inner loop up to the sleep.
ContinuousFrame ==
  /\ UNCHANGED config
  /\ pc = "c_inner"
  /\ IF InnerLoopCond
       THEN \E ret \in BOOLEAN :
              IF ret
                THEN /\ captured' = captured + 1
                     /\ clips' = ClipsAfterWrite(clips, writer, captured')
                     /\ frames_written' = frames_written + 1
                     /\ pc' = "c_sleep"
                     /\ UNCHANGED read_failed
                ELSE /\ read_failed' = TRUE
                     /\ pc' = "c_release"
                     /\ UNCHANGED <<captured, clips, frames_written>>
       ELSE /\ pc' = "c_release"
            /\ UNCHANGED <<captured, clips, frames_written, read_failed>>
  /\ upload_ret' = "unset"
  /\ outcome' = "unset"
  /\ UNCHANGED <<now, cap, mode_start_time, filename, writer, motion_locals,
                 files>>

\* line 154, evaluated at time t
MidChunkEnd(t) == ~should_continue_mode(t, mode_start_time, "continuous")

\* lines 151-155: pace the loop, then the mid-chunk check of the boundary.
ContinuousSleep ==
  /\ UNCHANGED config
  /\ pc = "c_sleep"
  /\ \E j \in 0..MaxJitter : Sleep(j)
  /\ pc' = IF MidChunkEnd(now') THEN "c_release" ELSE "c_inner"
  /\ upload_ret' = "unset"
  /\ outcome' = "unset"
  /\ UNCHANGED <<cap, captured, mode_start_time, filename, writer,
                 continuous_locals, motion_locals, clips, files>>

\* line 157
ContinuousRelease ==
  /\ UNCHANGED config
  /\ pc = "c_release"
  /\ clips' = ClipsAfterRelease(clips, writer)
  /\ pc' = "c_upload"
  /\ upload_ret' = "unset"
  /\ outcome' = "unset"
  /\ UNCHANGED <<now, cap, captured, mode_start_time, filename, writer,
                 continuous_locals, motion_locals, files>>

\* line 166, evaluated at time t, after the upload returned
ContinuousEnd(t) == ~should_continue_mode(t, mode_start_time, "continuous")

\* lines 162-167: upload the chunk, then leave the mode if its time is over
\* (line 169), else back to the while condition.
ContinuousUpload ==
  /\ UNCHANGED config
  /\ pc = "c_upload"
  /\ \E ok \in BOOLEAN, removed \in BOOLEAN, d \in 0..MaxUploadTicks :
       upload_to_cloudinary(filename, ok, removed, d)
  /\ IF ContinuousEnd(now')
       THEN /\ pc' = AfterContinuous
            /\ Return
       ELSE /\ pc' = "c_while"
            /\ UNCHANGED <<mode_start_time, filename, writer,
                           continuous_locals, motion_locals>>
  /\ UNCHANGED <<cap, captured>>

\* ---- motion_recording_mode (lines 171-254) ----

\* lines 179-187 (called from line 287)
MotionEnter ==
  /\ UNCHANGED config
  /\ \/ pc = "main_motion"
     \/ pc = "main_loop" /\ current_hour(now) % 2 # 1
  /\ Call
  /\ mode_start_time' = now
  /\ frame_buffer' = <<>>
  /\ prev_frame' = None
  /\ writer' = None
  /\ recording' = FALSE
  /\ motion_frame_count' = 0
  /\ no_motion_time' = 0
  /\ pc' = "m_while"
  /\ upload_ret' = "unset"
  /\ outcome' = "unset"
  /\ UNCHANGED <<now, cap, filename, continuous_locals, frame,
                 motion_detected, trigger, last_check, run, longest_run>>

\* lines 198-201
CountMotion(count, detected) == IF detected THEN count + 1 ELSE 0

\* lines 189-204: the while condition, the read, the motion score, the
\* counter and the push into the ring buffer.
MotionWhile ==
  /\ UNCHANGED config
  /\ pc = "m_while"
  /\ IF should_continue_mode(now, mode_start_time, "motion")
       THEN \E ret \in BOOLEAN, motion_pixels \in MotionPixels :
              IF ret
                THEN /\ captured' = captured + 1
                     /\ frame' = captured'
                     /\ motion_detected' =
                          detect_motion(prev_frame, motion_pixels, MOTION_THRESHOLD)
                     /\ motion_frame_count' =
                          CountMotion(motion_frame_count, motion_detected')
                     /\ frame_buffer' =
                          DequeAppend(frame_buffer, frame', PRE_MOTION_BUFFER_SIZE)
                     /\ run' = IF motion_detected' THEN run + 1 ELSE 0
                     /\ longest_run' =
                          IF run' > longest_run THEN run' ELSE longest_run
                     /\ pc' = "m_trigger"
                ELSE /\ pc' = "m_cleanup"
                     /\ UNCHANGED <<captured, frame, motion_detected,
                                    motion_frame_count, frame_buffer, run,
                                    longest_run>>
       ELSE /\ pc' = "m_cleanup"
            /\ UNCHANGED <<captured, frame, motion_detected,
                           motion_frame_count, frame_buffer, run, longest_run>>
  /\ upload_ret' = "unset"
  /\ outcome' = "unset"
  /\ UNCHANGED <<now, cap, mode_start_time, filename, writer, continuous_locals,
                 prev_frame, recording, no_motion_time, trigger, last_check,
                 clips, files>>

\* The trigger without its guard against an open recording.
TriggerCond_NoRecordingCheck == motion_frame_count >= MIN_MOTION_FRAMES

\* The trigger firing one frame late.
TriggerCond_Late == motion_frame_count > MIN_MOTION_FRAMES /\ ~recording

\* line 207
TriggerCond == motion_frame_count >= MIN_MOTION_FRAMES /\ ~recording

\* lines 214-215: the content of a writer after the frames of `buf` were
\* written to it in iteration order.
WriteAll(old, buf) == old \o buf

\* lines 207-218: start a recording and flush the ring buffer into it.
MotionTrigger ==
  /\ UNCHANGED config
  /\ pc = "m_trigger"
  /\ IF TriggerCond
       THEN /\ Len(clips) < MaxClips
            /\ filename' = get_filename("motion")
            /\ writer' = Len(clips) + 1
            /\ clips' = Append(clips,
                 [NewClip("motion", filename') EXCEPT
                    !.frames = WriteAll(@, frame_buffer)])
            /\ files' = FilesAfterOpen(filename', writer')
            /\ recording' = TRUE
            /\ no_motion_time' = now
            /\ trigger' = [time |-> now, frame |-> frame,
                           snapshot |-> frame_buffer]
            /\ last_check' = now
       ELSE UNCHANGED <<filename, writer, clips, files, recording,
                        no_motion_time, trigger, last_check>>
  /\ pc' = "m_record"
  /\ upload_ret' = "unset"
  /\ outcome' = "unset"
  /\ UNCHANGED <<now, cap, captured, mode_start_time, continuous_locals,
                 frame_buffer, prev_frame, frame, motion_detected,
                 motion_frame_count, run, longest_run>>

\* The hold timer expiring at the instant the delay is reached.
HoldExpired_AtLeast(t, last_motion) == t - last_motion >= POST_MOTION_DELAY * Second

\* line 229, at time t with the timer value of lines 218 and 225-226
HoldExpired(t, last_motion) == t - last_motion > POST_MOTION_DELAY * Second

\* lines 221-231: write the live frame, refresh the timer on motion, close
\* the writer when the post-motion hold has expired.
MotionRecord ==
  /\ UNCHANGED config
  /\ pc = "m_record"
  /\ IF recording
       THEN /\ no_motion_time' = IF motion_detected THEN now ELSE no_motion_time
            /\ IF HoldExpired(now, no_motion_time')
                 THEN /\ clips' = ClipsAfterRelease(
                                    ClipsAfterWrite(clips, writer, frame), writer)
                      /\ pc' = "m_hold_upload"
                      /\ UNCHANGED last_check
                 ELSE /\ clips' = ClipsAfterWrite(clips, writer, frame)
                      /\ last_check' = now
                      /\ pc' = "m_sleep"
       ELSE /\ pc' = "m_sleep"
            /\ UNCHANGED <<no_motion_time, clips, last_check>>
  /\ upload_ret' = "unset"
  /\ outcome' = "unset"
  /\ UNCHANGED <<now, cap, captured, mode_start_time, filename, writer,
                 continuous_locals, frame_buffer, prev_frame, frame,
                 motion_detected, recording, motion_frame_count, trigger,
                 run, longest_run, files>>

\* lines 234-238: upload the clip; the session is over.
MotionHoldUpload ==
  /\ UNCHANGED config
  /\ pc = "m_hold_upload"
  /\ \E ok \in BOOLEAN, removed \in BOOLEAN, d \in 0..MaxUploadTicks :
       upload_to_cloudinary(filename, ok, removed, d)
  /\ recording' = FALSE
  /\ writer' = None
  /\ trigger' = NoTrigger
  /\ last_check' = 0
  /\ pc' = "m_sleep"
  /\ UNCHANGED <<cap, captured, mode_start_time, filename, continuous_locals,
                 frame_buffer, prev_frame, frame, motion_detected,
                 motion_frame_count, no_motion_time, run, longest_run>>

\* lines 240-243
MotionSleep ==
  /\ UNCHANGED config
  /\ pc = "m_sleep"
  /\ prev_frame' = frame
  /\ \E j \in 0..MaxJitter : Sleep(j)
  /\ pc' = "m_while"
  /\ upload_ret' = "unset"
  /\ outcome' = "unset"
  /\ UNCHANGED <<cap, captured, mode_start_time, filename, writer,
                 continuous_locals, frame_buffer, frame, motion_detected,
                 recording, motion_frame_count, no_motion_time, trigger,
                 last_check, run, longest_run, clips, files>>

\* The cleanup testing for a missing writer.
CleanupCond_Inverted == recording /\ writer = None

\* line 246
CleanupCond == recording /\ writer # None

\* lines 246-247: after the loop, release a writer that is still recording;
\* line 254 otherwise.
MotionCleanup ==
  /\ UNCHANGED config
  /\ pc = "m_cleanup"
  /\ IF CleanupCond
       THEN /\ clips' = ClipsAfterRelease(clips, writer)
            /\ pc' = "m_final_upload"
            /\ UNCHANGED <<mode_start_time, filename, writer,
                           continuous_locals, motion_locals>>
       ELSE /\ pc' = AfterMotion
            /\ Return
            /\ UNCHANGED clips
  /\ upload_ret' = "unset"
  /\ outcome' = "unset"
  /\ UNCHANGED <<now, cap, captured, files>>

\* lines 250-254
MotionFinalUpload ==
  /\ UNCHANGED config
  /\ pc = "m_final_upload"
  /\ \E ok \in BOOLEAN, removed \in BOOLEAN, d \in 0..MaxUploadTicks :
       upload_to_cloudinary(filename, ok, removed, d)
  /\ pc' = AfterMotion
  /\ Return
  /\ UNCHANGED <<cap, captured>>

Next ==
  \/ MainStart
  \/ Interrupt
  \/ ContinuousEnter
  \/ ContinuousWhile
  \/ ContinuousFrame
  \/ ContinuousSleep
  \/ ContinuousRelease
  \/ ContinuousUpload
  \/ MotionEnter
  \/ MotionWhile
  \/ MotionTrigger
  \/ MotionRecord
  \/ MotionHoldUpload
  \/ MotionSleep
  \/ MotionCleanup
  \/ MotionFinalUpload

Spec == Init /\ [][Next]_vars

\* The program in the clock-parity setting.
SpecClock == InitClock /\ [][Next]_vars

\* A step of the program itself: the thread runs its next statement.
Step ==
  \/ MainStart
  \/ ContinuousEnter
  \/ ContinuousWhile
  \/ ContinuousFrame
  \/ ContinuousSleep
  \/ ContinuousRelease
  \/ ContinuousUpload
  \/ MotionEnter
  \/ MotionWhile
  \/ MotionTrigger
  \/ MotionRecord
  \/ MotionHoldUpload
  \/ MotionSleep
  \/ MotionCleanup
  \/ MotionFinalUpload

\* The program keeps running (reads, sleeps and uploads return) until it is
\* interrupted; an interrupt may come at any time or never.
SpecLive == Init /\ [][Next]_vars /\ WF_vars(Step)

\* ---- vocabulary of the properties ----

ContinuousPcs == {"c_while", "c_inner", "c_sleep", "c_release", "c_upload"}
MotionPcs == {"m_while", "m_trigger", "m_record", "m_hold_upload", "m_sleep",
              "m_cleanup", "m_final_upload"}
\* Positions of main between two calls of a mode function.
ReturnedPcs == {"main_continuous", "main_motion", "main_loop"}

OpenClips == {i \in DOMAIN clips : clips[i].opened}

\* A clip that went through release() once and upload once.
Finalized(c) == ~c.opened /\ c.released = 1 /\ c.submitted = 1

\* The mode boundary of section 4.1 has passed at the current time.
BoundaryPassed == now - mode_start_time >= MODE_DURATION * Second

\* The frames a..b in capture order.
FramesFrom(a, b) == [k \in 1..(b - a + 1) |-> a + k - 1]

\* C1: an interrupt that arrives while a writer is open finalizes the clip
\* (writer released, clip handed to upload once) before main() exits, so no
\* writer is open at exit.
C1_InterruptFinalizesOpenClip ==
  [][(pc' = "exited" /\ pc # "start") =>
       \A i \in DOMAIN clips :
         clips[i].opened => (i \in DOMAIN clips' /\ Finalized(clips'[i]))]_vars

\* C2: in continuous mode a failed read finalizes and uploads the partial
\* chunk and ends the mode: once a read of the activation has failed, no
\* further chunk is opened in it.
C2_ReadFailureEndsContinuousMode ==
  [][(pc \in ContinuousPcs /\ read_failed) => Len(clips') <= Len(clips)]_vars

\* C3: whenever a mode function returns (not by interrupt), every writer it
\* opened has been released once and its clip submitted once, none is open;
\* and motion mode ending while idle submits nothing.
C3_EveryWriterFinalizedAtReturn ==
  /\ [](pc \in ReturnedPcs => \A i \in DOMAIN clips : Finalized(clips[i]))
  /\ [][(pc = "m_cleanup" /\ ~recording /\ pc' # "exited") =>
          (pc' = "main_continuous" /\ clips' = clips /\ files' = files
           /\ upload_ret' = "unset")]_vars

\* C3 witness: motion mode has returned with a clip whose last frame is the
\* last frame captured (the clip was still open when the loop ended).
C3_Witness ==
  /\ pc = "main_continuous"
  /\ Len(clips) >= 1
  /\ clips[Len(clips)].mode = "motion"
  /\ clips[Len(clips)].frames[Len(clips[Len(clips)].frames)] = captured
  /\ Finalized(clips[Len(clips)])

\* C4: in motion mode at most one writer is open at any time, and a writer is
\* opened only when none is recording: one transition to RECORDING and one
\* clip per motion episode.
C4_OneWriterPerEpisode ==
  /\ [](pc \in MotionPcs =>
          /\ Cardinality(OpenClips) <= 1
          /\ (recording /\ pc \notin {"m_hold_upload", "m_final_upload"})
               => OpenClips = {writer}
          /\ ~recording => OpenClips = {})
  /\ [][(pc = "m_trigger" /\ Len(clips') # Len(clips)) =>
          /\ ~recording
          /\ OpenClips = {}
          /\ Len(clips') = Len(clips) + 1
          /\ recording']_vars

\* C4 witness: the motion that triggered the recording goes on while the
\* recording is open, and there is still the one clip.
C4_Witness ==
  /\ pc = "m_record"
  /\ recording
  /\ motion_frame_count > MIN_MOTION_FRAMES
  /\ Len(clips) = 1

\* C5: after each recorded frame, the frames written to a motion clip are the
\* ring buffer's content at the trigger followed by the frames captured after
\* the trigger.
C5_ClipIsSnapshotThenLaterFrames ==
  (pc = "m_sleep" /\ recording) =>
    clips[writer].frames = trigger.snapshot \o FramesFrom(trigger.frame + 1, frame)

\* One frame interval, 1/FPS seconds.
FrameInterval == Second \div FPS

\* A recording that was closed by the hold timer just now, with no motion
\* frame after its trigger.
HoldClosedWithoutFurtherMotion ==
  pc = "m_hold_upload" /\ no_motion_time = trigger.time

\* C6 as stated: a session triggered at T with no later motion is closed by
\* the hold timer at a check time t with T + D <= t < T + D + 1/FPS.
C6_HoldClosesWithinOneFrameInterval ==
  HoldClosedWithoutFurtherMotion =>
    /\ trigger.time + POST_MOTION_DELAY * Second <= now
    /\ now < trigger.time + POST_MOTION_DELAY * Second + FrameInterval

\* C6 amended: such a session is closed at the first per-frame check later
\* than T + D: T + D < t, the check before it was at or before T + D, and the
\* two checks are at least 1/FPS apart.
C6_HoldClosesAtFirstCheckAfterDelay ==
  HoldClosedWithoutFurtherMotion =>
    /\ trigger.time + POST_MOTION_DELAY * Second < now
    /\ last_check <= trigger.time + POST_MOTION_DELAY * Second
    /\ now - last_check >= FrameInterval

\* C6 witness: a hold-timer close of a session without further motion.
C6_Witness ==
  HoldClosedWithoutFurtherMotion /\ ~clips[writer].opened

\* A chunk whose loop has ended, before its upload.
ChunkClosing == pc \in {"c_release", "c_upload"}

\* C7: a continuous chunk never has more than CONTINUOUS_CHUNK_DURATION * FPS
\* frames, and a chunk that ends with neither the boundary passed nor a failed
\* read has exactly that many.
C7_ChunkLengthNominal ==
  /\ frames_written <= CONTINUOUS_CHUNK_DURATION * FPS
  /\ \A i \in DOMAIN clips :
       clips[i].mode = "continuous" =>
         Len(clips[i].frames) <= CONTINUOUS_CHUNK_DURATION * FPS
  /\ pc \in ContinuousPcs \ {"c_while"} =>
       Len(clips[writer].frames) = frames_written
  /\ (ChunkClosing /\ ~read_failed /\ ~BoundaryPassed) =>
       frames_written = CONTINUOUS_CHUNK_DURATION * FPS

\* C7 witness: a full chunk closes inside the mode's time.
C7_Witness ==
  /\ pc = "c_release"
  /\ ~read_failed
  /\ ~BoundaryPassed
  /\ Len(clips[writer].frames) = CONTINUOUS_CHUNK_DURATION * FPS

\* C8 as stated: a chunk being written when the boundary passes is closed
\* with at least one and fewer than CONTINUOUS_CHUNK_DURATION * FPS frames.
C8_BoundaryChunkShorterThanNominal ==
  (pc = "c_release" /\ ~read_failed /\ BoundaryPassed) =>
    /\ 1 <= Len(clips[writer].frames)
    /\ Len(clips[writer].frames) < CONTINUOUS_CHUNK_DURATION * FPS

\* C8 amended: such a chunk is closed with at least one and at most
\* CONTINUOUS_CHUNK_DURATION * FPS frames; it is submitted to upload, and no
\* chunk is opened once the boundary has passed.
C8_BoundaryChunkAtMostNominal ==
  /\ (pc = "c_release" /\ ~read_failed /\ BoundaryPassed) =>
       /\ 1 <= Len(clips[writer].frames)
       /\ Len(clips[writer].frames) <= CONTINUOUS_CHUNK_DURATION * FPS
  /\ (pc = "c_inner" /\ frames_written = 0) => ~BoundaryPassed
  /\ pc = "main_motion" =>
       \A i \in DOMAIN clips : clips[i].submitted = 1 /\ ~clips[i].opened

\* C8 witness: the boundary passed in a chunk that is shorter than nominal.
C8_Witness ==
  /\ pc = "c_release"
  /\ ~read_failed
  /\ BoundaryPassed
  /\ Len(clips[writer].frames) < CONTINUOUS_CHUNK_DURATION * FPS
  /\ Len(clips) >= 2

Min(a, b) == IF a < b THEN a ELSE b

\* C9: in motion mode the ring buffer never holds more than
\* PRE_MOTION_BUFFER_SIZE frames and holds the last min(K, capacity) of the K
\* frames captured in the activation, oldest first, whether idle or recording.
C9_RingBufferHoldsLastFrames ==
  pc \in MotionPcs =>
    /\ Len(frame_buffer) <= PRE_MOTION_BUFFER_SIZE
    /\ frame_buffer =
         FramesFrom(captured - Min(captured, PRE_MOTION_BUFFER_SIZE) + 1, captured)

\* C9 witness: frames were evicted while a recording is open.
C9_Witness ==
  /\ pc = "m_sleep"
  /\ recording
  /\ captured > PRE_MOTION_BUFFER_SIZE + 1
  /\ frame_buffer[1] = captured - PRE_MOTION_BUFFER_SIZE + 1

\* C10: a clip is opened on a frame exactly when the machine is not recording
\* and the counter has reached MIN_MOTION_FRAMES on that frame; without a run
\* of MIN_MOTION_FRAMES motion frames there is no clip, and the ring buffer
\* fills to PRE_MOTION_BUFFER_SIZE and stays there.
C10_ClipOpenedIffCounterReached ==
  /\ [][(pc = "m_trigger" /\ pc' = "m_record") =>
          ((Len(clips') = Len(clips) + 1)
             <=> (~recording /\ run >= MIN_MOTION_FRAMES))]_vars
  /\ [](pc \in MotionPcs =>
          /\ (longest_run < MIN_MOTION_FRAMES => clips = <<>>)
          /\ (~recording /\ pc # "m_trigger") => run < MIN_MOTION_FRAMES
          /\ captured >= PRE_MOTION_BUFFER_SIZE =>
               Len(frame_buffer) = PRE_MOTION_BUFFER_SIZE)

\* C10 witness: more frames than the buffer holds, none of them in a long
\* enough run, and no clip.
C10_Witness ==
  /\ pc = "m_sleep"
  /\ captured > PRE_MOTION_BUFFER_SIZE
  /\ longest_run < MIN_MOTION_FRAMES
  /\ longest_run > 0
  /\ clips = <<>>
  /\ Len(frame_buffer) = PRE_MOTION_BUFFER_SIZE

\* Positions at which upload_to_cloudinary is called with `filename`.
UploadPcs == {"c_upload", "m_hold_upload", "m_final_upload"}

\* Positions a caller is at after upload_to_cloudinary returned to it.
AfterUploadPcs ==
  {"c_while", "main_motion", "m_sleep", "main_continuous", "main_loop"}

FileNames(fs) == {f[1] : f \in fs}

\* C11 as stated: after a failed upload the local file is still there and the
\* call has returned the failure value without raising; after a successful
\* upload the local file is gone.
C11_FailedUploadKeepsFileSuccessRemovesIt ==
  [][(pc \in UploadPcs /\ outcome' # "unset") =>
       /\ pc' \in AfterUploadPcs
       /\ outcome' = "upload_failed" =>
            (filename \in FileNames(files') /\ upload_ret' = "None")
       /\ outcome' \in {"removed", "remove_failed"} =>
            filename \notin FileNames(files')]_vars

\* C11 amended: after a failed upload the local file is still there and the
\* call has returned the failure value without raising; after a successful
\* upload the local file is gone unless deleting it failed, and then it is
\* still there.
C11_FailedUploadKeepsFileSuccessTriesRemove ==
  [][(pc \in UploadPcs /\ outcome' # "unset") =>
       /\ pc' \in AfterUploadPcs
       /\ filename \in FileNames(files)
       /\ outcome' = "upload_failed" =>
            (files' = files /\ upload_ret' = "None")
       /\ outcome' = "removed" => filename \notin FileNames(files')
       /\ outcome' = "remove_failed" => files' = files]_vars

\* C11 witness: an upload has just failed and the clip's file is on disk.
C11_Witness ==
  /\ outcome = "upload_failed"
  /\ upload_ret = "None"
  /\ pc = "m_sleep"
  /\ filename \in FileNames(files)

ModePcs == ContinuousPcs \cup MotionPcs

\* An activation whose whole duration, with a last upload, lies inside the
\* explored time.
StartedInsideHorizon ==
  /\ pc \in ModePcs
  /\ mode_start_time + MODE_DURATION * Second + MaxUploadTicks <= MaxTime

\* C12: in DEMO_MODE the strategies alternate strictly, starting with
\* continuous, whatever reads and uploads do; no chunk is opened and no frame
\* is read once now - mode_start_time >= MODE_DURATION; and every activation
\* that is not interrupted ends (as far as the bound on writers lets it run).
C12_ModesAlternateAndEnd ==
  /\ [][/\ pc = "start" => pc' \in {"main_continuous", "exited"}
        /\ pc = "main_continuous" => pc' \in {"c_while", "exited"}
        /\ pc = "main_motion" => pc' \in {"m_while", "exited"}
        /\ (pc \in ContinuousPcs /\ pc' \notin ContinuousPcs)
             => pc' \in {"main_motion", "exited"}
        /\ (pc \in MotionPcs /\ pc' \notin MotionPcs)
             => pc' \in {"main_continuous", "exited"}
        /\ (pc \in ModePcs /\ (captured' # captured \/ Len(clips') > Len(clips)))
             => ~BoundaryPassed]_vars
  /\ [](StartedInsideHorizon =>
          <>(pc \in ReturnedPcs \/ pc = "exited" \/ Len(clips) >= MaxClips))

\* C12 witness: continuous mode runs again after a full continuous and a full
\* motion activation, the latter having left a clip on disk.
C12_Witness ==
  /\ pc = "c_inner"
  /\ mode_start_time = 2 * MODE_DURATION * Second
  /\ \E f \in files : f[1][1] = "MOTION"

\* The mode function the thread is in.
ActiveMode == IF pc \in ContinuousPcs THEN "continuous" ELSE "motion"

\* The hour's parity is the one the active mode runs under.
ParityMatches ==
  current_hour(now) % 2 = (IF ActiveMode = "continuous" THEN 1 ELSE 0)

\* Positions inside a loop iteration, between its entry test and the first
\* statement that takes time.
IterationPcs == {"c_inner", "m_trigger", "m_record"}

\* Statements left before the mode function returns once its loop test fails.
StepsToReturn(p) ==
  CASE p \in ReturnedPcs \cup {"exited"} -> 0
    [] p \in {"c_upload", "m_final_upload"} -> 1
    [] p \in {"c_release", "m_cleanup"} -> 2
    [] p = "m_while" -> 3
    [] p = "m_sleep" -> 4
    [] OTHER -> 5

\* C13: with DEMO_MODE off, main picks continuous mode iff the hour is odd and
\* motion mode iff it is even, each time round its loop; a mode is inside a
\* loop iteration, reads a frame or opens a clip only while the parity is its
\* own; once the parity has flipped every step of the mode leads towards its
\* return, and at the return every clip it opened is released and submitted.
C13_ClockParitySelectsAndEndsModes ==
  /\ [][(pc = "main_loop" /\ pc' # "exited") =>
          /\ pc' \in {"c_while", "m_while"}
          /\ pc' = "c_while" <=> current_hour(now) % 2 = 1
          /\ pc' = "m_while" <=> current_hour(now) % 2 = 0]_vars
  /\ [](pc \in IterationPcs => ParityMatches)
  /\ [][(pc \in ModePcs /\ (captured' # captured \/ Len(clips') > Len(clips)))
          => ParityMatches]_vars
  /\ [][(pc \in ModePcs /\ ~ParityMatches) =>
          /\ StepsToReturn(pc') < StepsToReturn(pc)
          /\ Len(clips') = Len(clips)]_vars
  /\ [](pc = "main_loop" => \A i \in DOMAIN clips : Finalized(clips[i]))

\* C13 witness: the hour turned odd while motion mode had a clip open; the
\* mode has returned with that clip finalized and continuous mode records.
C13_Witness ==
  /\ ~DEMO_MODE
  /\ pc = "c_inner"
  /\ current_hour(now) % 2 = 1
  /\ frames_written > 0
  /\ \E f \in files : f[1][1] = "MOTION"

\* The motion loop was left although its time is not over: cap.read() failed.
LeftByReadFailure ==
  /\ pc \in {"m_cleanup", "m_final_upload"}
  /\ should_continue_mode(now, mode_start_time, "motion")

\* C14: a failed read in motion mode leaves the frame loop without a frame;
\* a clip that is open then is released and submitted exactly once by the
\* cleanup after the loop, no further frame is read or written, and the
\* function returns to main, which goes on with the next mode.
C14_MotionReadFailureFinalizesAndReturns ==
  /\ [][(pc = "m_while" /\ pc' = "m_cleanup"
         /\ should_continue_mode(now, mode_start_time, "motion")) =>
          (captured' = captured /\ clips' = clips /\ files' = files)]_vars
  /\ [][(LeftByReadFailure /\ pc = "m_cleanup" /\ pc' # "exited") =>
          /\ captured' = captured
          /\ IF OpenClips # {}
               THEN /\ pc' = "m_final_upload"
                    /\ OpenClips = {writer}
                    /\ clips'[writer].released = 1
                    /\ clips'[writer].frames = clips[writer].frames
                    /\ clips'[writer].submitted = 0
               ELSE pc' = AfterMotion /\ clips' = clips /\ files' = files]_vars
  /\ [][(LeftByReadFailure /\ pc = "m_final_upload" /\ pc' # "exited") =>
          /\ captured' = captured
          /\ pc' = AfterMotion
          /\ \A i \in DOMAIN clips' : Finalized(clips'[i])]_vars

\* C14 witness: motion mode has returned to main before its time was over,
\* the clip that was open at the failed read released and submitted once.
C14_Witness ==
  /\ pc = "main_continuous"
  /\ now < 2 * MODE_DURATION * Second
  /\ Len(clips) >= 1
  /\ clips[Len(clips)].mode = "motion"
  /\ clips[Len(clips)].frames[Len(clips[Len(clips)].frames)] = captured
  /\ Finalized(clips[Len(clips)])

\* C15: whatever an upload does (fails, succeeds, succeeds without removing
\* the file), the caller goes on the same way: the next position depends on
\* the caller and the time only, the recording state (recording, writer,
\* motion_frame_count, frame_buffer, frames_written, mode_start_time) is what
\* the caller makes of it in every case, no frame is read, no clip is changed
\* or opened, and the clip is not submitted a second time.
C15_UploadOutcomeChangesNothing ==
  [][(pc \in UploadPcs /\ pc' # "exited") =>
       /\ outcome' \in {"upload_failed", "removed", "remove_failed"}
       /\ pc' = CASE pc = "m_hold_upload" -> "m_sleep"
                  [] pc = "m_final_upload" -> AfterMotion
                  [] pc = "c_upload" ->
                       IF ContinuousEnd(now') THEN AfterContinuous ELSE "c_while"
       /\ captured' = captured
       /\ Len(clips') = Len(clips)
       /\ \A i \in DOMAIN clips :
            /\ clips'[i].frames = clips[i].frames
            /\ clips'[i].opened = clips[i].opened
            /\ clips'[i].released = clips[i].released
            /\ clips'[i].submitted <= clips[i].submitted + 1
       /\ pc' \in ModePcs =>
            /\ mode_start_time' = mode_start_time
            /\ frame_buffer' = frame_buffer
            /\ motion_frame_count' = motion_frame_count
            /\ frames_written' = frames_written
            /\ recording' = (IF pc = "m_hold_upload" THEN FALSE ELSE recording)
            /\ writer' = (IF pc = "m_hold_upload" THEN None ELSE writer)]_vars

\* C15 witness: the upload of a full chunk failed and continuous mode is back
\* at its loop test with its frame counter and start time as they were.
C15_Witness ==
  /\ pc = "c_while"
  /\ outcome = "upload_failed"
  /\ frames_written = total_frames
  /\ now - mode_start_time < MODE_DURATION * Second

\* C16: when the upload succeeds and deleting the local file fails, the call
\* still returns the URL, the file stays on disk, and the caller goes on (no
\* exception leaves the call).
C16_DeleteFailureStillReturnsUrl ==
  [][(pc \in UploadPcs /\ outcome' = "remove_failed") =>
       /\ upload_ret' = "url"
       /\ files' = files
       /\ filename \in FileNames(files')
       /\ pc' \in AfterUploadPcs]_vars

\* C16 witness: a chunk was uploaded, its file could not be deleted, and
\* continuous mode goes on with the file still there.
C16_Witness ==
  /\ pc = "c_while"
  /\ outcome = "remove_failed"
  /\ upload_ret = "url"
  /\ filename \in FileNames(files)

\* C17: if the camera does not open, main ends at once: no mode is entered,
\* no frame read, no writer created, nothing uploaded; if it opens, the camera
\* is open as long as main is in its loop and is released when the loop is
\* left, which only an interrupt does; after main has ended nothing happens.
C17_CameraOpenedOrNothingRunsAndReleasedAtExit ==
  /\ [][pc = "start" => (pc' = "exited" <=> cap' = "closed")]_vars
  /\ []((pc = "exited" /\ cap = "closed") =>
          /\ captured = 0
          /\ clips = <<>>
          /\ files = {}
          /\ now = 0
          /\ upload_ret = "unset")
  /\ [](pc \notin {"start", "exited"} => cap = "open")
  /\ [][(pc \notin {"start", "exited"} /\ pc' = "exited") =>
          cap' = "released"]_vars
  /\ [](pc = "exited" => cap \in {"closed", "released"})
  /\ [][pc # "exited"]_vars

\* C17 witness: the camera did not open and main has ended.
C17_Witness ==
  /\ pc = "exited"
  /\ cap = "closed"
  /\ captured = 0
  /\ clips = <<>>

\* The captured frames a clip covers.
FramesCovered(c) == {c.frames[k] : k \in DOMAIN c.frames}

\* C18: in a motion clip no captured frame is written more than once: the
\* number of frames written equals the number of distinct captured frames
\* the clip covers.
C18_NoFrameWrittenTwice ==
  \A i \in DOMAIN clips :
    clips[i].mode = "motion" =>
      Len(clips[i].frames) = Cardinality(FramesCovered(clips[i]))

\* C19: a clip file that is on local storage is never overwritten by a later
\* clip: every writer is opened on a path that no retained file has.
C19_RetainedFileNeverOverwritten ==
  [][Len(clips') > Len(clips) => filename' \notin FileNames(files)]_vars

\* The last frame written to a clip.
LastFrame(c) == c.frames[Len(c.frames)]

\* C20: when the hold timer closes a clip the current frame is not a motion
\* frame and motion_frame_count is 0; a clip opened after it is triggered at
\* least MIN_MOTION_FRAMES frames after the frame the earlier clip was closed
\* on; and the first frame of a motion-mode activation is never a motion
\* frame.
C20_HoldClosesOnNonMotionFrame ==
  /\ pc = "m_hold_upload" =>
       (~motion_detected /\ motion_frame_count = 0 /\ LastFrame(clips[writer]) = frame)
  /\ (pc \in MotionPcs /\ recording /\ writer # None /\ writer >= 2) =>
       /\ Finalized(clips[writer - 1])
       /\ trigger.frame >= LastFrame(clips[writer - 1]) + MIN_MOTION_FRAMES
  /\ (pc \in MotionPcs /\ captured <= 1) =>
       (~motion_detected /\ motion_frame_count = 0)

\* C20 witness: the hold timer closed a clip and, after MIN_MOTION_FRAMES new
\* motion frames, a second clip has been opened.
C20_Witness ==
  /\ pc = "m_record"
  /\ recording
  /\ writer = 2
  /\ Finalized(clips[1])
  /\ trigger.frame = LastFrame(clips[1]) + MIN_MOTION_FRAMES

====
